---- MODULE Spec2Model ----
(***************************************************************************)
(* Subscription service (Zorynix/tz): HTTP handlers, the service layer,    *)
(* the repository and the SQL queries it runs, over a table of             *)
(* subscriptions.  Strings that the code inspects character by character   *)
(* (dates, service names) are sequences of one-character strings.          *)
(***************************************************************************)
EXTENDS Integers, Sequences, FiniteSets, TLC

VARIABLES store, nextId, last, inflight

vars == <<store, nextId, last, inflight>>

(* ------------------------------ bounds --------------------------------- *)

\* Number of rows ever inserted (ids are assigned 1..MaxSubs, never reused).
MaxSubs == 2

Ids == 1..MaxSubs

\* Number of requests the server handles at the same time (one goroutine
\* each).
MaxInFlight == 2

Procs == 1..MaxInFlight

\* The nil error, and the value returned beside an error.
Nil == "nil"

\* Absent row of the table.
NoRow == [present |-> FALSE]

\* An optional request field (a Go pointer): None is the nil pointer.
None == [set |-> FALSE]

Some(v) == [set |-> TRUE, v |-> v]

(* --------------------------- characters -------------------------------- *)

Digits == {"0","1","2","3","4","5","6","7","8","9"}

DigitVal(c) ==
  CASE c = "0" -> 0 [] c = "1" -> 1 [] c = "2" -> 2 [] c = "3" -> 3
    [] c = "4" -> 4 [] c = "5" -> 5 [] c = "6" -> 6 [] c = "7" -> 7
    [] c = "8" -> 8 [] c = "9" -> 9

DigitChar(n) ==
  CASE n = 0 -> "0" [] n = 1 -> "1" [] n = 2 -> "2" [] n = 3 -> "3"
    [] n = 4 -> "4" [] n = 5 -> "5" [] n = 6 -> "6" [] n = 7 -> "7"
    [] n = 8 -> "8" [] n = 9 -> "9"

\* Byte value of a character (ASCII), for Go's string comparison.
Ord(c) ==
  CASE c = "-" -> 45
    [] c \in Digits -> 48 + DigitVal(c)
    [] c = "N" -> 78 [] c = "T" -> 84 [] c = "V" -> 86
    [] c = "e" -> 101 [] c = "n" -> 110 [] c = "t" -> 116
    [] c = "v" -> 118 [] c = "x" -> 120

\* Go's s < t on strings: bytewise lexicographic order.
RECURSIVE StrLess(_, _)
StrLess(s, t) ==
  IF t = <<>> THEN FALSE
  ELSE IF s = <<>> THEN TRUE
  ELSE IF Ord(Head(s)) # Ord(Head(t)) THEN Ord(Head(s)) < Ord(Head(t))
  ELSE StrLess(Tail(s), Tail(t))

\* Case folding of ILIKE.
Lower(c) ==
  CASE c = "N" -> "n" [] c = "T" -> "t" [] c = "V" -> "v" [] OTHER -> c

LowerStr(s) == [i \in 1..Len(s) |-> Lower(s[i])]

\* service_name ILIKE '%' || pat || '%' (pat without wildcard characters).
ILikeContains(name, pat) ==
  \E i \in 0..(Len(name) - Len(pat)) :
    LowerStr(SubSeq(name, i + 1, i + Len(pat))) = LowerStr(pat)

(* ------------------------------- dates --------------------------------- *)

\* A calendar date (time.Time at midnight UTC, SQL DATE).
IsLeap(y) == (y % 4 = 0 /\ y % 100 # 0) \/ y % 400 = 0

DaysIn(y, m) ==
  IF m = 2 THEN (IF IsLeap(y) THEN 29 ELSE 28)
  ELSE IF m \in {4, 6, 9, 11} THEN 30 ELSE 31

\* time.Date(y, m, d, ...): out-of-range months and days are normalised.
RECURSIVE NormDay(_, _, _)
NormDay(y, m, d) ==
  IF d < 1 THEN
    LET pm == IF m = 1 THEN 12 ELSE m - 1
        py == IF m = 1 THEN y - 1 ELSE y
    IN NormDay(py, pm, d + DaysIn(py, pm))
  ELSE IF d > DaysIn(y, m) THEN
    LET nm == IF m = 12 THEN 1 ELSE m + 1
        ny == IF m = 12 THEN y + 1 ELSE y
    IN NormDay(ny, nm, d - DaysIn(y, m))
  ELSE [year |-> y, month |-> m, day |-> d]

TimeDate(y, m, d) ==
  NormDay(y + ((m - 1) \div 12), ((m - 1) % 12) + 1, d)

\* Chronological order of dates (SQL <= on DATE).
DateLE(a, b) ==
  \/ a.year < b.year
  \/ a.year = b.year /\ a.month < b.month
  \/ a.year = b.year /\ a.month = b.month /\ a.day <= b.day

\* Calendar month of a date, as a number of months.
MonthIndex(a) == a.year * 12 + (a.month - 1)

\* SQL: date + '1 month'::interval (the day is clamped to the month's end).
AddMonth(a) ==
  LET ny == IF a.month = 12 THEN a.year + 1 ELSE a.year
      nm == IF a.month = 12 THEN 1 ELSE a.month + 1
      nd == IF a.day > DaysIn(ny, nm) THEN DaysIn(ny, nm) ELSE a.day
  IN [year |-> ny, month |-> nm, day |-> nd]

\* pgtype.Date: a date with a Valid flag; the zero value is SQL NULL.
NullDate == [Valid |-> FALSE]

PgDate(t) == [Valid |-> TRUE, Time |-> t]

\* pgtype.Date.Scan(string), for the strings its callers pass (10 characters
\* with '-' at offsets 4 and 7): digits elsewhere, then time.Date.
Scan(s) ==
  IF /\ Len(s) = 10
     /\ s[5] = "-" /\ s[8] = "-"
     /\ \A i \in {1, 2, 3, 4, 6, 7, 9, 10} : s[i] \in Digits
  THEN [err |-> Nil,
        val |-> PgDate(TimeDate(
                  DigitVal(s[1]) * 1000 + DigitVal(s[2]) * 100
                    + DigitVal(s[3]) * 10 + DigitVal(s[4]),
                  DigitVal(s[6]) * 10 + DigitVal(s[7]),
                  DigitVal(s[9]) * 10 + DigitVal(s[10])))]
  ELSE [err |-> "ScanError", val |-> NullDate]

\* The decimal digits of a natural number.
RECURSIVE DecDigits(_)
DecDigits(n) ==
  IF n < 10 THEN <<DigitChar(n)>>
  ELSE Append(DecDigits(n \div 10), DigitChar(n % 10))

\* Zeros in front up to the width; a longer string is left as it is.
RECURSIVE ZeroPad(_, _)
ZeroPad(s, width) ==
  IF Len(s) >= width THEN s ELSE ZeroPad(<<"0">> \o s, width)

\* time's appendInt: the number in at least width digits, '-' in front of a
\* negative one.
appendInt(x, width) ==
  IF x < 0 THEN <<"-">> \o ZeroPad(DecDigits(0 - x), width)
  ELSE ZeroPad(DecDigits(x), width)

\* time.Time.Format("2006-01-02"): the year in four digits or more, with a
\* sign when negative, the month and the day in two.
Format(t) ==
  appendInt(t.year, 4) \o <<"-">> \o appendInt(t.month, 2)
    \o <<"-">> \o appendInt(t.day, 2)

\* subscriptionService.validateDateFormat: length and separators only.
validateDateFormat(date) ==
  IF Len(date) # 10 THEN "InvalidFormat"
  ELSE IF date[5] # "-" \/ date[8] # "-" THEN "InvalidFormat"
  ELSE Nil

(* ------------------------------ the table ------------------------------ *)

\* A row of subscriptions as the repository writes and reads it
\* (db.CreateSubscriptionParams, db.Subscription): start_date is a valid
\* pgtype.Date, end_date may be NullDate; created_at is the insertion time (a
\* logical clock).  The columns are DATE columns: the repository passes
\* pgtype.Date values and the queries compare them with ::DATE values.  The
\* migration's VARCHAR(7) columns belong to the year-month generation of the
\* queries; a table with them takes no row from this repository code, every
\* INSERT failing as a store query that fails does here.
Row(name, price, user, sd, ed, created) ==
  [service_name |-> name, price |-> price, user_id |-> user,
   start_date |-> sd, end_date |-> ed, created_at |-> created]

\* Result of a store query or of a repository/service call: the error (Nil
\* when none), the value returned, the table afterwards and the store queries
\* issued so far.
Ret(err, out, st, calls) ==
  [err |-> err, out |-> out, st |-> st, calls |-> calls]

\* A store query fails (connection/driver error) when it is the fail-th
\* query of the request; a failed query has no effect on the table.
DbFails(calls, fail) == fail = Len(calls)

\* -- name: CreateSubscription :one    INSERT ... RETURNING *
\* price INTEGER NOT NULL CHECK (price > 0).
CreateSubscriptionQ(st, id, params, calls0, fail) ==
  LET calls == Append(calls0, [q |-> "CreateSubscription"])
  IN IF DbFails(calls, fail) THEN Ret("StorageFailure", Nil, st, calls)
     ELSE IF ~(params.price > 0) THEN Ret("CheckViolation", Nil, st, calls)
     ELSE LET row == Row(params.service_name, params.price, params.user_id,
                         params.start_date, params.end_date, id)
          IN Ret(Nil, [id |-> id, row |-> row],
                 [st EXCEPT ![id] = row], calls)

\* -- name: GetSubscription :one    SELECT * FROM subscriptions WHERE id = $1
GetSubscriptionQ(st, id, calls0, fail) ==
  LET calls == Append(calls0, [q |-> "GetSubscription"])
  IN IF DbFails(calls, fail) THEN Ret("StorageFailure", Nil, st, calls)
     ELSE IF st[id] = NoRow THEN Ret("NoRows", Nil, st, calls)
     ELSE Ret(Nil, [id |-> id, row |-> st[id]], st, calls)

\* COALESCE(param, column)
Coalesce(param, column) == IF param = NullDate THEN column ELSE param

\* UpdateSubscriptionQ writing the row also when no row has the id.
UpdateSubscriptionQUpsert(st, params, calls0, fail) ==
  LET calls == Append(calls0, [q |-> "UpdateSubscription"])
      id == params.id
      row == Row(params.service_name, params.price,
                 IF st[id] = NoRow THEN "u1" ELSE st[id].user_id,
                 IF st[id] = NoRow THEN params.start_date
                 ELSE Coalesce(params.start_date, st[id].start_date),
                 IF st[id] = NoRow THEN params.end_date
                 ELSE Coalesce(params.end_date, st[id].end_date),
                 IF st[id] = NoRow THEN id ELSE st[id].created_at)
  IN IF DbFails(calls, fail) THEN Ret("StorageFailure", Nil, st, calls)
     ELSE IF ~(params.price > 0) THEN Ret("CheckViolation", Nil, st, calls)
     ELSE Ret(Nil, [id |-> id, row |-> row], [st EXCEPT ![id] = row], calls)

\* UpdateSubscriptionQ with end_date = $5 in place of COALESCE($5, end_date).
UpdateSubscriptionQEndAssigned(st, params, calls0, fail) ==
  LET calls == Append(calls0, [q |-> "UpdateSubscription"])
      id == params.id
  IN IF DbFails(calls, fail) THEN Ret("StorageFailure", Nil, st, calls)
     ELSE IF st[id] = NoRow THEN Ret("NoRows", Nil, st, calls)
     ELSE IF ~(params.price > 0) THEN Ret("CheckViolation", Nil, st, calls)
     ELSE LET row == [st[id] EXCEPT
                        !.service_name = params.service_name,
                        !.price = params.price,
                        !.start_date = Coalesce(params.start_date, @),
                        !.end_date = params.end_date]
          IN Ret(Nil, [id |-> id, row |-> row],
                 [st EXCEPT ![id] = row], calls)

\* -- name: UpdateSubscription :one    UPDATE ... WHERE id = $1 RETURNING *
UpdateSubscriptionQ(st, params, calls0, fail) ==
  LET calls == Append(calls0, [q |-> "UpdateSubscription"])
      id == params.id
  IN IF DbFails(calls, fail) THEN Ret("StorageFailure", Nil, st, calls)
     ELSE IF st[id] = NoRow THEN Ret("NoRows", Nil, st, calls)
     ELSE IF ~(params.price > 0) THEN Ret("CheckViolation", Nil, st, calls)
     ELSE LET row == [st[id] EXCEPT
                        !.service_name = params.service_name,
                        !.price = params.price,
                        !.start_date = Coalesce(params.start_date, @),
                        !.end_date = Coalesce(params.end_date, @)]
          IN Ret(Nil, [id |-> id, row |-> row],
                 [st EXCEPT ![id] = row], calls)

\* -- name: DeleteSubscription :execrows    DELETE ... WHERE id = $1
DeleteSubscriptionQ(st, id, calls0, fail) ==
  LET calls == Append(calls0, [q |-> "DeleteSubscription"])
  IN IF DbFails(calls, fail) THEN Ret("StorageFailure", 0, st, calls)
     ELSE IF st[id] = NoRow THEN Ret(Nil, 0, st, calls)
     ELSE Ret(Nil, 1, [st EXCEPT ![id] = NoRow], calls)

\* WHERE ($user IS NULL OR user_id = $user) AND
\*       ($name IS NULL OR service_name ILIKE '%' || $name || '%')
Matches(row, userID, serviceName) ==
  /\ (userID = None \/ row.user_id = userID.v)
  /\ (serviceName = None \/ ILikeContains(row.service_name, serviceName.v))

MatchingIds(st, userID, serviceName) ==
  {i \in Ids : st[i] # NoRow /\ Matches(st[i], userID, serviceName)}

\* ORDER BY created_at DESC
RECURSIVE OrderByCreatedDesc(_, _)
OrderByCreatedDesc(st, ids) ==
  IF ids = {} THEN <<>>
  ELSE LET newest == CHOOSE i \in ids :
                       \A j \in ids : st[j].created_at <= st[i].created_at
       IN <<newest>> \o OrderByCreatedDesc(st, ids \ {newest})

\* LIMIT l OFFSET o
LimitOffset(seq, l, o) ==
  SubSeq(seq, o + 1, IF o + l < Len(seq) THEN o + l ELSE Len(seq))

\* -- name: ListSubscriptions :many
\* A negative OFFSET (or LIMIT) is an error of the query.
ListSubscriptionsQ(st, params, calls0, fail) ==
  LET calls == Append(calls0, [q |-> "ListSubscriptions",
                               limit |-> params.limit,
                               offset |-> params.offset])
  IN IF DbFails(calls, fail) THEN Ret("StorageFailure", Nil, st, calls)
     ELSE IF params.offset < 0 \/ params.limit < 0
     THEN Ret("QueryError", Nil, st, calls)
     ELSE LET ids == OrderByCreatedDesc(
                       st, MatchingIds(st, params.user_id, params.service_name))
              page == LimitOffset(ids, params.limit, params.offset)
          IN Ret(Nil, [k \in 1..Len(page) |->
                         [id |-> page[k], row |-> st[page[k]]]], st, calls)

\* -- name: CountSubscriptions :one
CountSubscriptionsQ(st, params, calls0, fail) ==
  LET calls == Append(calls0, [q |-> "CountSubscriptions"])
  IN IF DbFails(calls, fail) THEN Ret("StorageFailure", Nil, st, calls)
     ELSE Ret(Nil,
              Cardinality(MatchingIds(st, params.user_id, params.service_name)),
              st, calls)

\* generate_series(start::DATE, end::DATE, '1 month'::interval)::DATE:
\* start, start + 1 month, ... while the value is <= end.
RECURSIVE GenerateSeries(_, _)
GenerateSeries(cur, end) ==
  IF DateLE(cur, end) THEN {cur} \cup GenerateSeries(AddMonth(cur), end)
  ELSE {}

\* MonthsCount with the comparison against start_date left out.
MonthsCountIgnoreStart(row, series) ==
  Cardinality({m \in series :
                 ~row.end_date.Valid \/ DateLE(m, row.end_date.Time)})

\* MonthsCount with the comparison against end_date made strict.
MonthsCountStrictEnd(row, series) ==
  Cardinality({m \in series :
                 /\ DateLE(row.start_date.Time, m)
                 /\ (~row.end_date.Valid
                       \/ (DateLE(m, row.end_date.Time)
                            /\ m # row.end_date.Time))})

\* COUNT(DISTINCT dr.month_start) of one subscription.
MonthsCount(row, series) ==
  Cardinality({m \in series :
                 /\ DateLE(row.start_date.Time, m)
                 /\ (~row.end_date.Valid \/ DateLE(m, row.end_date.Time))})

RECURSIVE SumOver(_, _, _)
SumOver(st, ids, series) ==
  IF ids = {} THEN 0
  ELSE LET i == CHOOSE j \in ids : TRUE
       IN st[i].price * MonthsCount(st[i], series)
            + SumOver(st, ids \ {i}, series)

\* CalculateTotalCostQ summing over the newest matching row only.
CalculateTotalCostQNewestOnly(st, params, calls0, fail) ==
  LET calls == Append(calls0, [q |-> "CalculateTotalCost"])
      ids == MatchingIds(st, params.user_id, params.service_name)
      newest == {i \in ids : \A j \in ids : st[j].created_at <= st[i].created_at}
  IN IF DbFails(calls, fail) THEN Ret("StorageFailure", 0, st, calls)
     ELSE Ret(Nil,
              SumOver(st, newest,
                      GenerateSeries(params.start_date.Time,
                                     params.end_date.Time)),
              st, calls)

\* -- name: CalculateTotalCost :one
CalculateTotalCostQ(st, params, calls0, fail) ==
  LET calls == Append(calls0, [q |-> "CalculateTotalCost"])
  IN IF DbFails(calls, fail) THEN Ret("StorageFailure", 0, st, calls)
     ELSE Ret(Nil,
              SumOver(st,
                      MatchingIds(st, params.user_id, params.service_name),
                      GenerateSeries(params.start_date.Time,
                                     params.end_date.Time)),
              st, calls)

(* ----------------------------- repository ------------------------------ *)

\* subscriptionRepository.convertToSubscription
convertToSubscription(sub) ==
  [id |-> sub.id,
   service_name |-> sub.row.service_name,
   price |-> sub.row.price,
   user_id |-> sub.row.user_id,
   start_date |-> IF sub.row.start_date.Valid
                  THEN Format(sub.row.start_date.Time) ELSE <<>>,
   end_date |-> IF sub.row.end_date.Valid
                THEN Some(Format(sub.row.end_date.Time)) ELSE None,
   created_at |-> sub.row.created_at]

\* subscriptionRepository.Create
repoCreate(st, newId, req, calls, fail) ==
  LET startDate == Scan(req.start_date)
      endDate == IF req.end_date # None THEN Scan(req.end_date.v)
                 ELSE [err |-> Nil, val |-> NullDate]
  IN IF startDate.err # Nil THEN Ret(startDate.err, Nil, st, calls)
     ELSE IF endDate.err # Nil THEN Ret(endDate.err, Nil, st, calls)
     ELSE LET params == [service_name |-> req.service_name,
                         price |-> req.price,
                         user_id |-> req.user_id,
                         start_date |-> startDate.val,
                         end_date |-> endDate.val]
              r == CreateSubscriptionQ(st, newId, params, calls, fail)
          IN IF r.err # Nil THEN r
             ELSE Ret(Nil, convertToSubscription(r.out), r.st, r.calls)

\* subscriptionRepository.GetByID
repoGetByID(st, id, calls, fail) ==
  LET r == GetSubscriptionQ(st, id, calls, fail)
  IN IF r.err # Nil THEN r
     ELSE Ret(Nil, convertToSubscription(r.out), r.st, r.calls)

\* subscriptionRepository.Update, from the row it has read: the supplied
\* fields laid over that row give the parameters of the UPDATE statement, or
\* the error of Scan.
UpdateParams(current, id, req) ==
  LET serviceName == IF req.service_name # None THEN req.service_name.v
                     ELSE current.service_name
      price == IF req.price # None THEN req.price.v ELSE current.price
      newStart == IF req.start_date # None THEN Scan(req.start_date.v)
                  ELSE [err |-> Nil, val |-> current.start_date]
      newEnd == IF req.end_date # None THEN Scan(req.end_date.v)
                ELSE [err |-> Nil, val |-> current.end_date]
  IN IF newStart.err # Nil THEN [err |-> newStart.err]
     ELSE IF newEnd.err # Nil THEN [err |-> newEnd.err]
     ELSE [err |-> Nil,
           params |-> [id |-> id, service_name |-> serviceName,
                       price |-> price, start_date |-> newStart.val,
                       end_date |-> newEnd.val]]

\* subscriptionRepository.Delete: zero rows affected is not an error.
repoDelete(st, id, calls, fail) ==
  LET r == DeleteSubscriptionQ(st, id, calls, fail)
  IN IF r.err # Nil THEN Ret(r.err, Nil, st, r.calls)
     ELSE Ret(Nil, Nil, r.st, r.calls)

\* pgtype.Text{String: serviceName, Valid: serviceName != ""}
TextParam(serviceName) ==
  IF serviceName # None /\ serviceName.v # <<>> THEN serviceName ELSE None

\* subscriptionRepository.CalculateTotalCost
repoCalculateTotalCost(st, filter, calls, fail) ==
  LET startDate == Scan(filter.start_date)
      endDate == Scan(filter.end_date)
  IN IF startDate.err # Nil THEN Ret(startDate.err, 0, st, calls)
     ELSE IF endDate.err # Nil THEN Ret(endDate.err, 0, st, calls)
     ELSE CalculateTotalCostQ(st,
            [user_id |-> filter.user_id,
             service_name |-> TextParam(filter.service_name),
             start_date |-> startDate.val,
             end_date |-> endDate.val], calls, fail)

(* ------------------------------- service ------------------------------- *)

\* svcCreate with the order check made after the insert.
svcCreateCheckAfterInsert(st, newId, req, fail) ==
  IF validateDateFormat(req.start_date) # Nil
  THEN Ret(validateDateFormat(req.start_date), Nil, st, <<>>)
  ELSE IF req.end_date # None /\ validateDateFormat(req.end_date.v) # Nil
  THEN Ret(validateDateFormat(req.end_date.v), Nil, st, <<>>)
  ELSE LET r == repoCreate(st, newId, req, <<>>, fail)
       IN IF r.err = Nil /\ req.end_date # None
             /\ StrLess(req.end_date.v, req.start_date)
          THEN Ret("InvalidRange", Nil, r.st, r.calls)
          ELSE r

\* subscriptionService.Create
svcCreate(st, newId, req, fail) ==
  IF validateDateFormat(req.start_date) # Nil
  THEN Ret(validateDateFormat(req.start_date), Nil, st, <<>>)
  ELSE IF req.end_date # None /\ validateDateFormat(req.end_date.v) # Nil
  THEN Ret(validateDateFormat(req.end_date.v), Nil, st, <<>>)
  ELSE IF req.end_date # None /\ StrLess(req.end_date.v, req.start_date)
  THEN Ret("InvalidRange", Nil, st, <<>>)
  ELSE repoCreate(st, newId, req, <<>>, fail)

\* subscriptionService.GetByID
svcGetByID(st, id, fail) == repoGetByID(st, id, <<>>, fail)

\* uuid.Parse on the user_id query parameter: the strings of Users stand for
\* well-formed UUID strings, any other string is rejected.
Users == {"u1", "u2"}

\* uuidParse accepting every string.
uuidParseAny(str) == [err |-> Nil, val |-> str]

uuidParse(str) ==
  IF str \in Users THEN [err |-> Nil, val |-> str]
  ELSE [err |-> "InvalidIdentifier", val |-> Nil]

\* req.UserID != nil && *req.UserID != ""
HasUserID(req) == req.user_id # None /\ req.user_id.v # ""

\* ClampLimit without the upper clamp.
ClampLimitNoCap(limit) == IF limit <= 0 THEN 20 ELSE limit

\* req.Limit after the two clamps of subscriptionService.List.
ClampLimit(limit) ==
  LET l1 == IF limit <= 0 THEN 20 ELSE limit
  IN IF l1 > 100 THEN 100 ELSE l1

\* subscriptionService.CalculateTotalCost
svcCalculateTotalCost(st, req, fail) ==
  IF validateDateFormat(req.start_date) # Nil
  THEN Ret(validateDateFormat(req.start_date), Nil, st, <<>>)
  ELSE IF validateDateFormat(req.end_date) # Nil
  THEN Ret(validateDateFormat(req.end_date), Nil, st, <<>>)
  ELSE IF HasUserID(req) /\ uuidParse(req.user_id.v).err # Nil
  THEN Ret("InvalidIdentifier", Nil, st, <<>>)
  ELSE LET r == repoCalculateTotalCost(st,
                  [user_id |-> IF HasUserID(req)
                               THEN Some(uuidParse(req.user_id.v).val)
                               ELSE None,
                   service_name |-> req.service_name,
                   start_date |-> req.start_date,
                   end_date |-> req.end_date], <<>>, fail)
       IN IF r.err # Nil THEN Ret(r.err, Nil, st, r.calls)
          ELSE Ret(Nil, [total_cost |-> r.out], st, r.calls)

(* ------------------------------- inputs -------------------------------- *)

Str4(a, b, c, d) == <<a, b, c, d>>

\* "YYYY-MM-DD" from its three digit groups.
DateStr(y, m, d) == y \o <<"-">> \o m \o <<"-">> \o d

Y2023 == Str4("2", "0", "2", "3")

D_0101 == DateStr(Y2023, <<"0", "1">>, <<"0", "1">>)
D_0115 == DateStr(Y2023, <<"0", "1">>, <<"1", "5">>)
D_0201 == DateStr(Y2023, <<"0", "2">>, <<"0", "1">>)
D_0301 == DateStr(Y2023, <<"0", "3">>, <<"0", "1">>)
D_0310 == DateStr(Y2023, <<"0", "3">>, <<"1", "0">>)
D_0501 == DateStr(Y2023, <<"0", "5">>, <<"0", "1">>)

\* Seven characters, the year-month form: fails validateDateFormat.
D_Short == Y2023 \o <<"-", "0", "1">>

\* Right length and separators, a letter in the month: passes
\* validateDateFormat, fails Scan.
D_Alpha == DateStr(Y2023, <<"0", "x">>, <<"0", "1">>)

NameNet == <<"N", "e", "t">>
NameTV == <<"T", "V">>

\* Requests offered to Create: an end equal to the start, an end before the
\* start, a start in the year-month form.
CreateRequests ==
  {[service_name |-> NameNet, price |-> 400, user_id |-> "u1",
    start_date |-> D_0115, end_date |-> Some(D_0115)],
   [service_name |-> NameTV, price |-> 400, user_id |-> "u2",
    start_date |-> D_0310, end_date |-> Some(D_0115)],
   [service_name |-> NameTV, price |-> 400, user_id |-> "u2",
    start_date |-> D_Short, end_date |-> None]}

\* Requests offered to Update: a price alone, a start date alone, a start in
\* the year-month form.
UpdateRequests ==
  {[service_name |-> None, price |-> Some(150),
    start_date |-> None, end_date |-> None],
   [service_name |-> None, price |-> None,
    start_date |-> Some(D_0310), end_date |-> None],
   [service_name |-> None, price |-> None,
    start_date |-> Some(D_Short), end_date |-> None]}

\* user_id query parameters: absent, empty, two well-formed, one malformed.
UserParams == {None, Some(""), Some("u1"), Some("zz")}

\* service_name query parameters: absent, empty, a lower-case fragment.
NameParams == {None, Some(<<>>), Some(<<"n", "e", "t">>)}

\* Requests offered to List: the default limit, a limit above the cap, a
\* page of one row at the front and one behind the first row, a negative
\* offset, a negative limit with an empty user id, a name fragment, an owner,
\* a user id that does not parse.
ListRequests ==
  {[user_id |-> None, service_name |-> None, limit |-> 0, offset |-> 0],
   [user_id |-> None, service_name |-> None, limit |-> 500, offset |-> 0],
   [user_id |-> None, service_name |-> None, limit |-> 1, offset |-> 0],
   [user_id |-> None, service_name |-> None, limit |-> 1, offset |-> 1],
   [user_id |-> None, service_name |-> None, limit |-> 1, offset |-> -1],
   [user_id |-> Some(""), service_name |-> Some(<<>>),
    limit |-> -5, offset |-> 0],
   [user_id |-> None, service_name |-> Some(<<"n", "e", "t">>),
    limit |-> 101, offset |-> 0],
   [user_id |-> Some("u1"), service_name |-> None, limit |-> 2, offset |-> 0],
   [user_id |-> Some("zz"), service_name |-> None, limit |-> 2, offset |-> 0]}

RangeDates == {D_0101, D_0115, D_0201, D_0301, D_0310, D_Short, D_Alpha}

TotalCostRequests ==
  [user_id : UserParams, service_name : NameParams,
   start_date : RangeDates, end_date : RangeDates]

\* The date a well-formed date string denotes.
DateOf(str) == Scan(str).val

\* Rows that Create requests leave in the table, offered as its content to
\* the total-cost requests.
SeedRows ==
  { [service_name |-> NameNet, price |-> 400, user_id |-> "u1",
     start_date |-> DateOf(D_0101), end_date |-> DateOf(D_0301)],
    [service_name |-> NameTV, price |-> 150, user_id |-> "u2",
     start_date |-> DateOf(D_0501), end_date |-> NullDate],
    [service_name |-> NameNet, price |-> 400, user_id |-> "u2",
     start_date |-> DateOf(D_0115), end_date |-> NullDate],
    [service_name |-> NameTV, price |-> 150, user_id |-> "u1",
     start_date |-> DateOf(D_0101), end_date |-> NullDate],
    [service_name |-> NameTV, price |-> 400, user_id |-> "u1",
     start_date |-> DateOf(D_0101), end_date |-> DateOf(D_0310)] }

SeedStores ==
  { [i \in Ids |->
       IF pick[i] = NoRow THEN NoRow
       ELSE Row(pick[i].service_name, pick[i].price, pick[i].user_id,
                pick[i].start_date, pick[i].end_date, i)] :
    pick \in [Ids -> SeedRows \cup {NoRow}] }

(* ------------------------------ handlers ------------------------------- *)

\* Each request runs in its own goroutine and issues its store queries one
\* by one, outside any transaction: a step of a goroutine is one store query
\* together with the code between it and the next query, so the queries of
\* other requests may take effect between two steps.

\* A request that has read or returned no value (a nil pointer, an empty
\* response body).
NoValue == [set |-> FALSE]

\* A goroutine handling a request: where it is (pc), the operation, the id
\* and body or query it was sent, the parameters it has prepared for a later
\* statement, the store queries it has issued, whether one of them failed,
\* and, once it has ended, the error, the value and the status answered.
Request(pc, op, id, req) ==
  [pc |-> pc, op |-> op, id |-> id, req |-> req, params |-> None,
   calls |-> <<>>, dbFailed |-> FALSE, err |-> Nil, out |-> NoValue,
   status |-> 0]

\* A goroutine that handles no request, and the server with none in progress.
NoRequest == Request("idle", "none", 0, None)

NoneInFlight == [p \in Procs |-> NoRequest]

\* The position at which the next store query of goroutine p fails (a
\* connection or driver error), 0 when it does not.
FailAt(p, failed) == IF failed THEN Len(inflight[p].calls) + 1 ELSE 0

\* The request has ended with result r (of the service) and this status; no
\* value comes with an error.
Answered(request, r, status, fail) ==
  [request EXCEPT !.pc = "done", !.err = r.err,
                  !.out = IF r.err # Nil THEN NoValue ELSE r.out,
                  !.calls = r.calls,
                  !.dbFailed = (fail > 0 /\ fail = Len(r.calls)),
                  !.status = status]

\* The request of goroutine p has ended.
Ended(p, r, status, fail) ==
  [inflight EXCEPT ![p] = Answered(@, r, status, fail)]

\* ShouldBindJSON on CreateSubscriptionRequest: binding:"required" fields
\* are non-zero, price has min=1.
BindCreate(req) ==
  /\ req.service_name # <<>>
  /\ req.price >= 1
  /\ req.start_date # <<>>

\* SubscriptionHandler.CreateSubscription: the binding, the service's checks
\* and the one store query of a Create, and the handler's answer.
CreateSubscription(p, req, failed) ==
  /\ inflight[p].pc = "idle"
  /\ nextId <= MaxSubs
  /\ LET fail == IF failed THEN 1 ELSE 0
         r == IF BindCreate(req) THEN svcCreate(store, nextId, req, fail)
              ELSE Ret("BindError", Nil, store, <<>>)
         status == IF ~BindCreate(req) THEN 400
                   ELSE IF r.err # Nil THEN 500 ELSE 201
     IN /\ store' = r.st
        /\ nextId' = IF r.st # store THEN nextId + 1 ELSE nextId
        /\ inflight' = [inflight EXCEPT ![p] =
                          Answered(Request("done", "Create", nextId, req),
                                   r, status, fail)]
  /\ UNCHANGED last

\* SubscriptionHandler.GetSubscription: one store query.
GetSubscription(p, id, failed) ==
  /\ inflight[p].pc = "idle"
  /\ LET fail == IF failed THEN 1 ELSE 0
         r == svcGetByID(store, id, fail)
     IN inflight' = [inflight EXCEPT ![p] =
                       Answered(Request("done", "Get", id, None), r,
                                IF r.err # Nil THEN 404 ELSE 200, fail)]
  /\ UNCHANGED <<store, nextId, last>>

\* GetSubscription, UpdateSubscription, DeleteSubscription with an id
\* parameter that uuid.Parse rejects: 400, the service is not called.
InvalidIdRequest(p, op) ==
  /\ inflight[p].pc = "idle"
  /\ inflight' = [inflight EXCEPT ![p] =
                    Answered(Request("done", op, 0, None),
                             Ret("InvalidIdentifier", Nil, store, <<>>),
                             400, 0)]
  /\ UNCHANGED <<store, nextId, last>>

\* SubscriptionHandler.UpdateSubscription has parsed the id and bound the body.
BeginUpdate(p, id, req) ==
  /\ inflight[p].pc = "idle"
  /\ inflight' = [inflight EXCEPT ![p] = Request("exists", "Update", id, req)]
  /\ UNCHANGED <<store, nextId, last>>

\* subscriptionService.Update: repo.GetByID, any error of which is answered
\* as "subscription not found", then the date formats.
UpdateCheckExists(p, failed) ==
  /\ inflight[p].pc = "exists"
  /\ LET req == inflight[p].req
         fail == FailAt(p, failed)
         g == repoGetByID(store, inflight[p].id, inflight[p].calls, fail)
     IN inflight' =
          IF g.err # Nil
          THEN Ended(p, Ret("NotFound", Nil, store, g.calls), 404, fail)
          ELSE IF req.start_date # None
                  /\ validateDateFormat(req.start_date.v) # Nil
          THEN Ended(p, Ret(validateDateFormat(req.start_date.v), Nil,
                            store, g.calls), 404, fail)
          ELSE IF req.end_date # None
                  /\ validateDateFormat(req.end_date.v) # Nil
          THEN Ended(p, Ret(validateDateFormat(req.end_date.v), Nil,
                            store, g.calls), 404, fail)
          ELSE [inflight EXCEPT ![p] =
                  [@ EXCEPT !.pc = "read", !.calls = g.calls]]
  /\ UNCHANGED <<store, nextId, last>>

\* subscriptionRepository.Update: r.queries.GetSubscription and the overlay
\* of the request's fields on the row read.
UpdateReadCurrent(p, failed) ==
  /\ inflight[p].pc = "read"
  /\ LET fail == FailAt(p, failed)
         cur == GetSubscriptionQ(store, inflight[p].id, inflight[p].calls,
                                 fail)
     IN inflight' =
          IF cur.err # Nil
          THEN Ended(p, Ret(cur.err, Nil, store, cur.calls), 404, fail)
          ELSE LET u == UpdateParams(cur.out.row, inflight[p].id,
                                     inflight[p].req)
               IN IF u.err # Nil
                  THEN Ended(p, Ret(u.err, Nil, store, cur.calls), 404, fail)
                  ELSE [inflight EXCEPT ![p] =
                          [@ EXCEPT !.pc = "write", !.params = u.params,
                                    !.calls = cur.calls]]
  /\ UNCHANGED <<store, nextId, last>>

\* subscriptionRepository.Update: r.queries.UpdateSubscription, and the
\* handler's answer.
UpdateWrite(p, failed) ==
  /\ inflight[p].pc = "write"
  /\ LET fail == FailAt(p, failed)
         r == UpdateSubscriptionQ(store, inflight[p].params,
                                  inflight[p].calls, fail)
     IN /\ store' = r.st
        /\ inflight' =
             IF r.err # Nil
             THEN Ended(p, Ret(r.err, Nil, r.st, r.calls), 404, fail)
             ELSE Ended(p, Ret(Nil, convertToSubscription(r.out), r.st,
                               r.calls), 200, fail)
  /\ UNCHANGED <<nextId, last>>

\* SubscriptionHandler.DeleteSubscription has parsed the id.
BeginDelete(p, id) ==
  /\ inflight[p].pc = "idle"
  /\ inflight' = [inflight EXCEPT ![p] = Request("find", "Delete", id, None)]
  /\ UNCHANGED <<store, nextId, last>>

\* subscriptionService.Delete: repo.GetByID, any error of which is answered
\* as "subscription not found".
DeleteCheckExists(p, failed) ==
  /\ inflight[p].pc = "find"
  /\ LET fail == FailAt(p, failed)
         g == repoGetByID(store, inflight[p].id, inflight[p].calls, fail)
     IN inflight' =
          IF g.err # Nil
          THEN Ended(p, Ret("NotFound", Nil, store, g.calls), 404, fail)
          ELSE [inflight EXCEPT ![p] =
                  [@ EXCEPT !.pc = "delete", !.calls = g.calls]]
  /\ UNCHANGED <<store, nextId, last>>

\* subscriptionRepository.Delete: r.queries.DeleteSubscription, and the
\* handler's answer.
DeleteRow(p, failed) ==
  /\ inflight[p].pc = "delete"
  /\ LET fail == FailAt(p, failed)
         r == repoDelete(store, inflight[p].id, inflight[p].calls, fail)
     IN /\ store' = r.st
        /\ inflight' = Ended(p, Ret(r.err, NoValue, r.st, r.calls),
                             IF r.err # Nil THEN 404 ELSE 204, fail)
  /\ UNCHANGED <<nextId, last>>

\* SubscriptionHandler.ListSubscriptions has bound the query.
BeginList(p, req) ==
  /\ inflight[p].pc = "idle"
  /\ inflight' = [inflight EXCEPT ![p] = Request("page", "List", 0, req)]
  /\ UNCHANGED <<store, nextId, last>>

\* subscriptionService.List (the clamps, uuid.Parse) and the first query of
\* subscriptionRepository.List: r.queries.ListSubscriptions.
ListPage(p, failed) ==
  /\ inflight[p].pc = "page"
  /\ LET req == inflight[p].req
         fail == FailAt(p, failed)
         params == [user_id |-> IF HasUserID(req)
                                THEN Some(uuidParse(req.user_id.v).val)
                                ELSE None,
                    service_name |-> TextParam(req.service_name),
                    limit |-> ClampLimit(req.limit),
                    offset |-> req.offset]
         subs == ListSubscriptionsQ(store, params, inflight[p].calls, fail)
     IN inflight' =
          IF HasUserID(req) /\ uuidParse(req.user_id.v).err # Nil
          THEN Ended(p, Ret("InvalidIdentifier", Nil, store, <<>>), 500, 0)
          ELSE IF subs.err # Nil
          THEN Ended(p, Ret(subs.err, Nil, store, subs.calls), 500, fail)
          ELSE [inflight EXCEPT ![p] =
                  [@ EXCEPT !.pc = "count", !.params = params,
                            !.calls = subs.calls,
                            !.out = [rows |-> subs.out]]]
  /\ UNCHANGED <<store, nextId, last>>

\* The second query of subscriptionRepository.List, r.queries.
\* CountSubscriptions, the conversion of the rows read by the first, and the
\* handler's answer, which repeats the clamped limit and the offset.
ListCount(p, failed) ==
  /\ inflight[p].pc = "count"
  /\ LET subs == inflight[p].out.rows
         fail == FailAt(p, failed)
         count == CountSubscriptionsQ(store, inflight[p].params,
                                      inflight[p].calls, fail)
     IN inflight' =
          IF count.err # Nil
          THEN Ended(p, Ret(count.err, Nil, store, count.calls), 500, fail)
          ELSE Ended(p,
                     Ret(Nil,
                         [data |-> [k \in 1..Len(subs) |->
                                      convertToSubscription(subs[k])],
                          total |-> count.out,
                          limit |-> inflight[p].params.limit,
                          offset |-> inflight[p].req.offset],
                         store, count.calls), 200, fail)
  /\ UNCHANGED <<store, nextId, last>>

\* The response of goroutine p has been written (c.JSON / c.Status) and the
\* goroutine ends.
RequestDone(p) ==
  /\ inflight[p].pc = "done"
  /\ inflight' = [inflight EXCEPT ![p] = NoRequest]
  /\ UNCHANGED <<store, nextId, last>>

\* The outcome of a request that issues at most one store query and does not
\* write: the HTTP status, the service's error and value, the store queries
\* it issued, whether one of them failed.
Outcome(op, id, req, status, r, fail) ==
  [op |-> op, id |-> id, req |-> req, status |-> status,
   err |-> r.err, out |-> r.out, calls |-> r.calls,
   dbFailed |-> (fail > 0 /\ fail = Len(r.calls))]

NoOutcome == [op |-> "none"]

\* No such outcome is on record.
Idle == last = NoOutcome

\* ShouldBindQuery on TotalCostRequest: start_date and end_date required.
BindTotalCost(req) == req.start_date # <<>> /\ req.end_date # <<>>

\* SubscriptionHandler.CalculateTotalCost: one store query.
CalculateTotalCost(req, fail) ==
  /\ Idle
  /\ LET r == IF BindTotalCost(req) THEN svcCalculateTotalCost(store, req, fail)
              ELSE Ret("BindError", Nil, store, <<>>)
     IN last' = Outcome("TotalCost", 0, req,
                        IF r.err # Nil THEN 400 ELSE 200, r, fail)
  /\ UNCHANGED <<store, nextId, inflight>>

\* The response has been written (c.JSON) and the request ends.
Respond ==
  /\ ~Idle
  /\ last' = NoOutcome
  /\ UNCHANGED <<store, nextId, inflight>>

(* ---------------------------- specification ---------------------------- *)

\* The handlers that read or write single subscriptions, from an empty table.
Init ==
  /\ store = [i \in Ids |-> NoRow]
  /\ nextId = 1
  /\ last = NoOutcome
  /\ inflight = NoneInFlight

Next ==
  \E p \in Procs :
    \/ \E req \in CreateRequests, failed \in BOOLEAN :
         CreateSubscription(p, req, failed)
    \/ \E id \in Ids, failed \in BOOLEAN : GetSubscription(p, id, failed)
    \/ \E id \in Ids, req \in UpdateRequests : BeginUpdate(p, id, req)
    \/ \E failed \in BOOLEAN : UpdateCheckExists(p, failed)
    \/ \E failed \in BOOLEAN : UpdateReadCurrent(p, failed)
    \/ \E failed \in BOOLEAN : UpdateWrite(p, failed)
    \/ \E id \in Ids : BeginDelete(p, id)
    \/ \E failed \in BOOLEAN : DeleteCheckExists(p, failed)
    \/ \E failed \in BOOLEAN : DeleteRow(p, failed)
    \/ \E op \in {"Get", "Update", "Delete"} : InvalidIdRequest(p, op)
    \/ RequestDone(p)

Spec == Init /\ [][Next]_vars

\* The total-cost requests over a populated table.
InitQuery ==
  /\ store \in SeedStores
  /\ nextId = MaxSubs + 1
  /\ last = NoOutcome
  /\ inflight = NoneInFlight

NextQuery ==
  \/ \E req \in TotalCostRequests, fail \in 0..1 : CalculateTotalCost(req, fail)
  \/ Respond

SpecQuery == InitQuery /\ [][NextQuery]_vars

\* Strings offered to validateDateFormat: ten characters built from a year,
\* a month and a day group with a letter, a zero or an out-of-range value in
\* them and with or without the separators, and the seven-character form.
YearGroups == {Y2023, Str4("2", "0", "x", "3")}

MonthGroups == {<<"0", "1">>, <<"0", "2">>, <<"1", "3">>, <<"0", "0">>,
                <<"0", "x">>}

DayGroups == {<<"0", "1">>, <<"2", "9">>, <<"3", "1">>, <<"0", "0">>,
              <<"x", "1">>}

Separators == {"-", "/"}

DateStrings ==
  {y \o <<s1>> \o m \o <<s2>> \o d :
     y \in YearGroups, s1 \in Separators, m \in MonthGroups,
     s2 \in Separators, d \in DayGroups}
  \cup {D_Short, <<>>, D_0101 \o <<"0">>}

\* A call of subscriptionService.validateDateFormat on its own.
ValidateDate(date) ==
  /\ Idle
  /\ last' = [op |-> "Validate", req |-> date,
              err |-> validateDateFormat(date)]
  /\ UNCHANGED <<store, nextId, inflight>>

NextValidate ==
  \/ \E date \in DateStrings : ValidateDate(date)
  \/ Respond

SpecValidate == Init /\ [][NextValidate]_vars

\* Update requests sent in parallel: a price alone, a name alone, an end date
\* alone, a start in the year-month form.
ParallelUpdateRequests ==
  {[service_name |-> None, price |-> Some(150),
    start_date |-> None, end_date |-> None],
   [service_name |-> None, price |-> None,
    start_date |-> None, end_date |-> Some(D_0310)],
   [service_name |-> Some(NameTV), price |-> None,
    start_date |-> None, end_date |-> None],
   [service_name |-> None, price |-> None,
    start_date |-> Some(D_Short), end_date |-> None]}

\* A table with one subscription in it, with an end date or without, the
\* other ids not in use.
InitParallel ==
  /\ \E ed \in {DateOf(D_0301), NullDate} :
       store = [i \in Ids |->
                  IF i = 1
                  THEN Row(NameNet, 400, "u1", DateOf(D_0101), ed, 1)
                  ELSE NoRow]
  /\ nextId = MaxSubs + 1
  /\ last = NoOutcome
  /\ inflight = NoneInFlight

\* Update and Delete requests in parallel, no store query failing.
NextParallel ==
  \E p \in Procs :
    \/ \E id \in Ids, req \in ParallelUpdateRequests : BeginUpdate(p, id, req)
    \/ UpdateCheckExists(p, FALSE)
    \/ UpdateReadCurrent(p, FALSE)
    \/ UpdateWrite(p, FALSE)
    \/ \E id \in Ids : BeginDelete(p, id)
    \/ DeleteCheckExists(p, FALSE)
    \/ DeleteRow(p, FALSE)
    \/ RequestDone(p)

SpecParallel == InitParallel /\ [][NextParallel]_vars

\* Create requests sent while a List is in progress.
ParallelCreateRequests ==
  {[service_name |-> NameTV, price |-> 400, user_id |-> "u1",
    start_date |-> D_0115, end_date |-> None],
   [service_name |-> NameNet, price |-> 400, user_id |-> "u2",
    start_date |-> D_Short, end_date |-> None]}

\* Total-cost requests sent beside the List requests: without a user id, with
\* one that parses and with one that does not, the start date well-formed or
\* in the year-month form.
ParallelCostRequests ==
  {[user_id |-> u, service_name |-> None,
    start_date |-> sd, end_date |-> D_0301] :
     u \in {None, Some("u1"), Some("zz")}, sd \in {D_0101, D_Short}}

\* A table with one subscription in it, the next id free.
InitParallelList ==
  /\ store = [i \in Ids |->
                IF i = 1
                THEN Row(NameNet, 400, "u1", DateOf(D_0101), DateOf(D_0301), 1)
                ELSE NoRow]
  /\ nextId = 2
  /\ last = NoOutcome
  /\ inflight = NoneInFlight

\* List and total-cost requests while Create and Delete requests write.
NextParallelList ==
  \/ \E p \in Procs :
       \/ \E req \in ListRequests : BeginList(p, req)
       \/ \E failed \in BOOLEAN : ListPage(p, failed)
       \/ \E failed \in BOOLEAN : ListCount(p, failed)
       \/ \E req \in ParallelCreateRequests : CreateSubscription(p, req, FALSE)
       \/ \E id \in Ids : BeginDelete(p, id)
       \/ DeleteCheckExists(p, FALSE)
       \/ DeleteRow(p, FALSE)
       \/ RequestDone(p)
  \/ \E req \in ParallelCostRequests : CalculateTotalCost(req, 0)
  \/ Respond

SpecParallelList == InitParallelList /\ [][NextParallelList]_vars

(* ------------------------------- claims -------------------------------- *)

\* The filter of a list or total-cost request, as the service passes it on.
FilterUser(req) == IF HasUserID(req) THEN Some(req.user_id.v) ELSE None

FilterName(req) == TextParam(req.service_name)

\* A subscription is active in calendar month m (a month number).
ActiveInMonth(row, m) ==
  /\ MonthIndex(row.start_date.Time) <= m
  /\ (~row.end_date.Valid \/ MonthIndex(row.end_date.Time) >= m)

\* Sum over the subscriptions ids of price times the number of calendar months
\* of the range, first to last inclusive, in which the subscription is active.
RECURSIVE MonthOverlapCost(_, _, _, _)
MonthOverlapCost(st, ids, first, final) ==
  IF ids = {} THEN 0
  ELSE LET i == CHOOSE j \in ids : TRUE
       IN st[i].price
            * Cardinality({m \in first..final : ActiveInMonth(st[i], m)})
            + MonthOverlapCost(st, ids \ {i}, first, final)

\* The last request was a total-cost request that returned a total.
CostReturned == last.op = "TotalCost" /\ last.err = Nil

\* C1: for a range whose start is not after its end, the total returned is
\* the sum over the matching subscriptions of price times the number of
\* months of the range, start month to end month inclusive, in which the
\* subscription is active.
C1_TotalCostIsMonthOverlapSum ==
  (CostReturned
     /\ DateLE(DateOf(last.req.start_date).Time, DateOf(last.req.end_date).Time))
  => last.out.total_cost =
       MonthOverlapCost(store,
         MatchingIds(store, FilterUser(last.req), FilterName(last.req)),
         MonthIndex(DateOf(last.req.start_date).Time),
         MonthIndex(DateOf(last.req.end_date).Time))

\* C2: every stored subscription that has an end date has end >= start.
C2_EndNotBeforeStart ==
  \A i \in Ids :
    (store[i] # NoRow /\ store[i].end_date.Valid)
    => DateLE(store[i].start_date.Time, store[i].end_date.Time)

\* C3: a total-cost request whose end date precedes its start date fails with
\* InvalidRange and issues no store query.
C3_ReversedRangeRejected ==
  (/\ last.op = "TotalCost"
   /\ validateDateFormat(last.req.start_date) = Nil
   /\ validateDateFormat(last.req.end_date) = Nil
   /\ StrLess(last.req.end_date, last.req.start_date))
  => (last.err = "InvalidRange" /\ last.calls = <<>>)

ValidationErrors == {"InvalidFormat", "InvalidRange", "InvalidIdentifier"}


\* Goroutine p has answered its request.
HasEnded(p) == inflight[p].pc = "done"

\* C4: a request that ends in a validation error has issued no store query.
C4_ValidationBeforeStore ==
  \A p \in Procs :
    (HasEnded(p) /\ inflight[p].err \in ValidationErrors)
    => inflight[p].calls = <<>>

\* C5: a Delete of an id that is not in the table (never inserted, or deleted
\* before), none of its store queries failing, is answered with success: no
\* error, 204.
C5_DeleteAbsentSucceeds ==
  \A p \in Procs :
    (/\ HasEnded(p) /\ inflight[p].op = "Delete" /\ inflight[p].id \in Ids
     /\ store[inflight[p].id] = NoRow /\ ~inflight[p].dbFailed)
    => (inflight[p].err = Nil /\ inflight[p].status = 204)

\* C6: the UPDATE statement of a successful Update gives each supplied field
\* the supplied value and leaves each unsupplied field, the owner, the
\* creation time and every other row as they were before it.
C6_UpdateChangesOnlySupplied ==
  [][\A p \in Procs :
       (/\ inflight[p].pc = "write"
        /\ inflight'[p].pc = "done" /\ inflight'[p].err = Nil) =>
         LET id == inflight[p].id
             old == store[id]
             new == store'[id]
             req == inflight[p].req
         IN /\ old # NoRow /\ new # NoRow
            /\ new.service_name =
                 (IF req.service_name # None THEN req.service_name.v
                  ELSE old.service_name)
            /\ new.price =
                 (IF req.price # None THEN req.price.v ELSE old.price)
            /\ IF req.start_date # None
               THEN new.start_date.Valid
                    /\ Format(new.start_date.Time) = req.start_date.v
               ELSE new.start_date = old.start_date
            /\ IF req.end_date # None
               THEN new.end_date.Valid
                    /\ Format(new.end_date.Time) = req.end_date.v
               ELSE new.end_date = old.end_date
            /\ new.user_id = old.user_id
            /\ new.created_at = old.created_at
            /\ \A j \in Ids \ {id} : store'[j] = store[j]]_vars

\* The fields of an Update request are valid: dates that are calendar dates
\* in the form YYYY-MM-DD, a positive price.
ValidUpdate(req) ==
  /\ req.start_date # None => Scan(req.start_date.v).err = Nil
  /\ req.end_date # None => Scan(req.end_date.v).err = Nil
  /\ req.price # None => req.price.v > 0

\* The errors that say the row is absent: the service's "subscription not
\* found" and the store's no-rows error.
RowAbsent == {"NotFound", "NoRows"}

\* C7: in the step that answers an Update, no store query failing: when the
\* id is not in the table the answer is the error of an absent row with 404
\* and the table is left as it is; when the id is in the table and the fields
\* are valid the answer is that row with the supplied fields laid over it.
C7_UpdateNotFoundOrMerged ==
  [][\A p \in Procs :
       (/\ inflight[p].op = "Update" /\ inflight[p].pc # "done"
        /\ inflight'[p].pc = "done" /\ ~inflight'[p].dbFailed) =>
         LET old == store[inflight[p].id]
             req == inflight[p].req
             ans == inflight'[p]
         IN /\ old = NoRow =>
                 (ans.err \in RowAbsent /\ ans.status = 404 /\ store' = store)
            /\ (old # NoRow /\ ValidUpdate(req)) =>
                 /\ ans.err = Nil /\ ans.status = 200
                 /\ ans.out.id = inflight[p].id
                 /\ ans.out.user_id = old.user_id
                 /\ ans.out.service_name =
                      (IF req.service_name # None THEN req.service_name.v
                       ELSE old.service_name)
                 /\ ans.out.price =
                      (IF req.price # None THEN req.price.v ELSE old.price)
                 /\ ans.out.start_date =
                      (IF req.start_date # None THEN req.start_date.v
                       ELSE Format(old.start_date.Time))
                 /\ ans.out.end_date =
                      (IF req.end_date # None THEN req.end_date
                       ELSE IF old.end_date.Valid
                       THEN Some(Format(old.end_date.Time)) ELSE None)]_vars

\* C8: a step of a Create or Update request changes the table only when it
\* ends the request with success: a request that returns an error has left
\* the table as it was in every one of its steps.
C8_ErrorLeavesStore ==
  [][\A p \in Procs :
       (/\ inflight'[p].pc # inflight[p].pc
        /\ inflight'[p].op \in {"Create", "Update"}
        /\ ~(inflight'[p].pc = "done" /\ inflight'[p].err = Nil))
       => store' = store]_vars

\* C8 witness: an Update of a row that is in the table failed in its UPDATE
\* statement, and a Create was rejected because its end precedes its start.
C8_Witness ==
  \E p, q \in Procs :
    /\ HasEnded(p) /\ inflight[p].op = "Update"
    /\ inflight[p].err = "StorageFailure" /\ Len(inflight[p].calls) = 3
    /\ store[inflight[p].id] # NoRow
    /\ HasEnded(q) /\ inflight[q].op = "Create"
    /\ inflight[q].err = "InvalidRange"

\* Goroutine p handles a List request whose page query has been issued.
ListQueried(p) == inflight[p].op = "List" /\ Len(inflight[p].calls) >= 1

\* C9: the limit that List passes to the store lies in 1..100: 20 for a
\* requested limit <= 0, 100 for one > 100, the requested limit otherwise.
C9_LimitClamped ==
  \A p \in Procs :
    ListQueried(p) =>
      LET l == inflight[p].calls[1].limit
          asked == inflight[p].req.limit
      IN /\ l \in 1..100
         /\ l = (IF asked <= 0 THEN 20 ELSE IF asked > 100 THEN 100 ELSE asked)

\* C9 witness: a List request with limit 500 reached the store.
C9_Witness ==
  \E p \in Procs : ListQueried(p) /\ inflight[p].req.limit = 500

\* C10: the offset that reaches the store's page query is never negative.
C10_OffsetNonNegative ==
  \A p \in Procs : ListQueried(p) => inflight[p].calls[1].offset >= 0

\* The ids of a set of rows, newest created first.
NewestFirst(st, ids) ==
  CHOOSE s \in [1..Cardinality(ids) -> ids] :
    \A i, j \in 1..Cardinality(ids) :
      i < j => st[s[i]].created_at > st[s[j]].created_at

\* The positions from..to of a sequence that exist in it.
Positions(s, from, to) ==
  LET upto == IF to < Len(s) THEN to ELSE Len(s)
  IN [k \in 1..(upto - from + 1) |-> s[from + k - 1]]

\* The user id of a List request, if any, parses: the request has a filter.
HasFilter(req) == HasUserID(req) => req.user_id.v \in Users

\* C11: for every filter, limit and offset, the page query of a List reads
\* the subscriptions at positions offset+1 .. offset+limit (limit as passed
\* to the store) of the stored subscriptions matching the filter, ordered
\* newest created first; the count query reads as total the number of stored
\* subscriptions matching the filter; the answer holds the rows of the page
\* query, at most limit, and that total.
C11_ListTotalAndPage ==
  [][\A p \in Procs :
       LET req == inflight[p].req
           matching == MatchingIds(store, FilterUser(req), FilterName(req))
           ordered == NewestFirst(store, matching)
           now == inflight'[p]
       IN /\ (/\ inflight[p].pc = "page" /\ now.pc # "page"
              /\ HasFilter(req) /\ ~now.dbFailed) =>
                LET limit == now.calls[1].limit
                    page == Positions(ordered, req.offset + 1,
                                      req.offset + limit)
                IN /\ now.pc = "count"
                   /\ Len(now.out.rows) = Len(page)
                   /\ \A k \in 1..Len(page) :
                        /\ now.out.rows[k].id = page[k]
                        /\ now.out.rows[k].row = store[page[k]]
          /\ (/\ inflight[p].pc = "count" /\ now.pc # "count"
              /\ ~now.dbFailed) =>
                LET rows == inflight[p].out.rows
                IN /\ now.pc = "done" /\ now.err = Nil
                   /\ now.out.total = Cardinality(matching)
                   /\ Len(now.out.data) <= now.out.limit
                   /\ Len(now.out.data) = Len(rows)
                   /\ \A k \in 1..Len(rows) :
                        /\ now.out.data[k].id = rows[k].id
                        /\ now.out.data[k].service_name =
                             rows[k].row.service_name
                        /\ now.out.data[k].price = rows[k].row.price
                        /\ now.out.data[k].user_id = rows[k].row.user_id]_vars

\* A string has the form YYYY-MM-DD: ten characters, '-' at 5 and 8.
HasDateShape(date) == Len(date) = 10 /\ date[5] = "-" /\ date[8] = "-"

\* A string of that form names a calendar date: digits in the three groups,
\* a month in 1..12 and a day of that month.
IsCalendarDate(date) ==
  /\ HasDateShape(date)
  /\ \A i \in {1, 2, 3, 4, 6, 7, 9, 10} : date[i] \in Digits
  /\ LET y == DigitVal(date[1]) * 1000 + DigitVal(date[2]) * 100
                + DigitVal(date[3]) * 10 + DigitVal(date[4])
         m == DigitVal(date[6]) * 10 + DigitVal(date[7])
         d == DigitVal(date[9]) * 10 + DigitVal(date[10])
     IN m \in 1..12 /\ d \in 1..DaysIn(y, m)

\* C12: validateDateFormat fails with InvalidFormat for every string whose
\* length or separators do not match and for every string with a non-digit
\* in its year or month group, and it accepts only strings that name a
\* calendar period.
C12_ValidatorRejectsNonNumeric ==
  last.op = "Validate" =>
    /\ (~HasDateShape(last.req)
         \/ \E i \in {1, 2, 3, 4, 6, 7} : last.req[i] \notin Digits)
       => last.err = "InvalidFormat"
    /\ last.err = Nil => IsCalendarDate(last.req)


\* What an answered request o (its req, err and calls) shows of the handling
\* of the user id: one that is not a well-formed identifier is rejected with
\* InvalidIdentifier before any store query, and a request without a user id
\* is not rejected with InvalidIdentifier.
UserIdHandled(o) ==
  /\ (HasUserID(o.req) /\ o.req.user_id.v \notin Users)
     => (o.err = "InvalidIdentifier" /\ o.calls = <<>>)
  /\ ~HasUserID(o.req) => o.err # "InvalidIdentifier"

\* A total-cost request that was bound has been answered.
CostAnswered == last.op = "TotalCost" /\ BindTotalCost(last.req)

\* The error of the period validator for the two dates of a total-cost
\* request, the start date first; Nil when both pass.
DatesError(req) ==
  IF validateDateFormat(req.start_date) # Nil
  THEN validateDateFormat(req.start_date)
  ELSE validateDateFormat(req.end_date)

\* C13 as stated: every List or total-cost request with a user id that is
\* not a well-formed identifier fails with InvalidIdentifier and issues no
\* store query; a request without a user id never fails with
\* InvalidIdentifier.
C13_InvalidUserIdRejected ==
  /\ \A p \in Procs :
       (HasEnded(p) /\ inflight[p].op = "List") => UserIdHandled(inflight[p])
  /\ CostAnswered => UserIdHandled(last)

\* C13 amended: a List request with a user id that is not a well-formed
\* identifier fails with InvalidIdentifier and issues no store query; a
\* total-cost request with such a user id issues no store query and fails
\* with the error of the period validator when one of its dates is malformed,
\* with InvalidIdentifier when both dates pass; a request without a user id
\* never fails with InvalidIdentifier.
C13_InvalidUserIdRejectedAfterDates ==
  /\ \A p \in Procs :
       (HasEnded(p) /\ inflight[p].op = "List") => UserIdHandled(inflight[p])
  /\ CostAnswered =>
       /\ (HasUserID(last.req) /\ last.req.user_id.v \notin Users)
          => /\ last.calls = <<>>
             /\ last.err = (IF DatesError(last.req) # Nil
                            THEN DatesError(last.req)
                            ELSE "InvalidIdentifier")
       /\ ~HasUserID(last.req) => last.err # "InvalidIdentifier"

\* C13 witness: a total-cost request with well-formed dates and a List
\* request, each with the user id "zz", were rejected with InvalidIdentifier
\* over a table that holds rows.
C13_Witness ==
  /\ CostAnswered
  /\ last.req.user_id = Some("zz")
  /\ last.req.start_date = D_0101 /\ last.req.end_date = D_0301
  /\ last.err = "InvalidIdentifier" /\ last.calls = <<>>
  /\ \E p \in Procs :
       /\ HasEnded(p) /\ inflight[p].op = "List"
       /\ inflight[p].req.user_id = Some("zz")
       /\ inflight[p].err = "InvalidIdentifier"
       /\ inflight[p].calls = <<>>
  /\ \E i \in Ids : store[i] # NoRow

\* Two date strings name days of the same calendar month.
SameMonth(a, b) ==
  /\ Scan(a).err = Nil /\ Scan(b).err = Nil
  /\ MonthIndex(DateOf(a).Time) = MonthIndex(DateOf(b).Time)

\* C14: the total cost depends on calendar months only: a total-cost request
\* that differs from the answered one only in the day of the month of its
\* start or end date gets the same total over the same table.
C14_DayOfMonthIndependent ==
  CostReturned =>
    \A req \in TotalCostRequests :
      (/\ req.user_id = last.req.user_id
       /\ req.service_name = last.req.service_name
       /\ SameMonth(req.start_date, last.req.start_date)
       /\ SameMonth(req.end_date, last.req.end_date))
      => LET r == svcCalculateTotalCost(store, req, 0)
         IN r.err = Nil /\ r.out.total_cost = last.out.total_cost

\* The table holds exactly one subscription: price 400, start January 2023,
\* end March 2023 (each month written as its first day).
ScenarioStore ==
  \E i \in Ids :
    /\ store[i] # NoRow
    /\ store[i].price = 400
    /\ store[i].start_date = DateOf(D_0101)
    /\ store[i].end_date = DateOf(D_0301)
    /\ \A j \in Ids \ {i} : store[j] = NoRow

\* The last request was a total-cost request without a filter that was
\* answered, no store query failing.
UnfilteredCost ==
  /\ last.op = "TotalCost" /\ ~last.dbFailed
  /\ FilterUser(last.req) = None /\ FilterName(last.req) = None

\* C15: over a table holding one subscription of price 400 from January to
\* March 2023, an unfiltered total-cost request returns 1200 for the range
\* January..March 2023 and 400 for the range February..February 2023.
C15_ScenarioTotals ==
  (ScenarioStore /\ UnfilteredCost) =>
    /\ (last.req.start_date = D_0101 /\ last.req.end_date = D_0301)
       => (last.err = Nil /\ last.out.total_cost = 1200)
    /\ (last.req.start_date = D_0201 /\ last.req.end_date = D_0201)
       => (last.err = Nil /\ last.out.total_cost = 400)

\* C15 witness: the request for January..March 2023 over that table was
\* answered with 1200.
C15_Witness ==
  /\ ScenarioStore /\ UnfilteredCost
  /\ last.req.start_date = D_0101 /\ last.req.end_date = D_0301
  /\ last.out.total_cost = 1200

\* No subscription of ids is active in a calendar month of first..final.
NoneActive(st, ids, first, final) ==
  \A i \in ids : \A m \in first..final : ~ActiveInMonth(st[i], m)

\* C16: every total returned is a non-negative integer, and it is 0 when no
\* stored subscription matches the filter or no matching subscription is
\* active in a calendar month of the range.
C16_TotalNonNegativeZeroWhenNoOverlap ==
  CostReturned =>
    LET matching == MatchingIds(store, FilterUser(last.req),
                                FilterName(last.req))
    IN /\ last.out.total_cost \in Nat
       /\ NoneActive(store, matching,
                     MonthIndex(DateOf(last.req.start_date).Time),
                     MonthIndex(DateOf(last.req.end_date).Time))
          => last.out.total_cost = 0

\* C16 witness: a subscription without end that starts in May 2023 matches
\* the filter, the range is January..March 2023 and the total is 0.
C16_Witness ==
  /\ CostReturned
  /\ last.req.start_date = D_0101 /\ last.req.end_date = D_0301
  /\ \E i \in MatchingIds(store, FilterUser(last.req), FilterName(last.req)) :
       /\ store[i].start_date = DateOf(D_0501)
       /\ ~store[i].end_date.Valid
  /\ last.out.total_cost = 0

\* The filters compared with the answered request's filter.
CostFilters ==
  [user_id : {None, Some("u1"), Some("u2")},
   service_name : {None, Some(<<"n", "e", "t">>), Some(<<"t", "v">>)}]

\* The total the service returns over table st for the answered request's
\* range with filter f.
CostWith(st, f) ==
  svcCalculateTotalCost(st,
    [last.req EXCEPT !.user_id = f.user_id, !.service_name = f.service_name],
    0).out.total_cost

\* The table with its rows inserted in the order perm.
Reinserted(st, perm) ==
  [i \in Ids |-> IF st[perm[i]] = NoRow THEN NoRow
                 ELSE [st[perm[i]] EXCEPT !.created_at = i]]

\* C17: for the range of an answered total-cost request, the total is the
\* same over the table with the same subscriptions inserted in any other
\* order, and it is the sum of the totals of any two filters that select
\* disjoint sets of subscriptions whose union is the set the request selects.
C17_OrderIndependentAdditive ==
  CostReturned =>
    LET f == [user_id |-> FilterUser(last.req),
              service_name |-> FilterName(last.req)]
        selected == MatchingIds(store, f.user_id, f.service_name)
    IN /\ \A perm \in Permutations(Ids) :
            CostWith(Reinserted(store, perm), f) = last.out.total_cost
       /\ \A a, b \in CostFilters :
            LET A == MatchingIds(store, a.user_id, a.service_name)
                B == MatchingIds(store, b.user_id, b.service_name)
            IN (A \cap B = {} /\ A \cup B = selected)
               => last.out.total_cost = CostWith(store, a) + CostWith(store, b)

\* C17 witness: the request selects two subscriptions of different owners,
\* each with a positive total over the range, and the table holds them in
\* this order.
C17_Witness ==
  /\ CostReturned
  /\ FilterUser(last.req) = None
  /\ store[1] # NoRow /\ store[2] # NoRow
  /\ store[1].user_id = "u1" /\ store[2].user_id = "u2"
  /\ store[1].price # store[2].price
  /\ CostWith(store, [user_id |-> Some("u1"), service_name |-> None]) > 0
  /\ CostWith(store, [user_id |-> Some("u2"), service_name |-> None]) > 0
  /\ last.out.total_cost =
       CostWith(store, [user_id |-> Some("u1"),
                        service_name |-> FilterName(last.req)])
       + CostWith(store, [user_id |-> Some("u2"),
                          service_name |-> FilterName(last.req)])
  /\ MatchingIds(store, None, FilterName(last.req)) = {1, 2}


\* C18: a create, list or total-cost request that validation rejects
\* (malformed date, end before start, unparseable user id) is answered with
\* a 4xx status.
C18_ValidationAnswered4xx ==
  /\ \A p \in Procs :
       (/\ HasEnded(p) /\ inflight[p].op \in {"Create", "List"}
        /\ inflight[p].err \in ValidationErrors)
       => inflight[p].status \in 400..499
  /\ (last.op = "TotalCost" /\ last.err \in ValidationErrors)
     => last.status \in 400..499

\* C19: a request one of whose store queries failed (for a reason other than
\* the row being absent) issued no query after the failed one and reports a
\* storage failure, not NotFound.
C19_StorageFailureSurfaced ==
  \A p \in Procs :
    (HasEnded(p) /\ inflight[p].dbFailed)
    => /\ inflight[p].err = "StorageFailure"
       /\ inflight[p].status # 404

\* Goroutine p has answered an Update of id that supplied nothing but f
\* ("price" or "service_name") with success.
UpdatedOnly(p, id, f) ==
  /\ inflight[p].pc = "done" /\ inflight[p].op = "Update"
  /\ inflight[p].id = id /\ inflight[p].err = Nil
  /\ inflight[p].req.start_date = None /\ inflight[p].req.end_date = None
  /\ IF f = "price"
     THEN inflight[p].req.price # None /\ inflight[p].req.service_name = None
     ELSE inflight[p].req.price = None /\ inflight[p].req.service_name # None

\* C20: when two Update requests for the same id, one supplying only a price
\* and the other only a service name, have both succeeded, the row holds the
\* supplied price and the supplied service name.
C20_ParallelPartialUpdatesKept ==
  \A p, q \in Procs : \A id \in Ids :
    (p # q /\ UpdatedOnly(p, id, "price") /\ UpdatedOnly(q, id, "service_name"))
    => /\ store[id] # NoRow
       /\ store[id].price = inflight[p].req.price.v
       /\ store[id].service_name = inflight[q].req.service_name.v

\* Goroutine p is handling an Update of id and has a store query to issue.
UpdatePending(p, id) ==
  /\ inflight[p].pc \in {"exists", "read", "write"}
  /\ inflight[p].id = id

\* C21: an id whose row has been deleted (ids are not reused) stays absent
\* from the table in every step, and the next store query of an Update of
\* that id, also of one that read the row before the delete, ends the Update
\* with an error.
C21_DeletedNeverRestored ==
  [][\A id \in Ids :
       store[id] = NoRow =>
         /\ store'[id] = NoRow
         /\ \A p \in Procs :
              (UpdatePending(p, id) /\ inflight'[p] # inflight[p])
              => (inflight'[p].pc = "done" /\ inflight'[p].err # Nil)]_vars

\* C21 witness: an Update read the row, a Delete of the same id then removed
\* it with success, and the Update's write ended with an error, the id absent.
C21_Witness ==
  \E p, q \in Procs :
    /\ inflight[p].pc = "done" /\ inflight[p].op = "Update"
    /\ inflight[p].params # None /\ inflight[p].err = "NoRows"
    /\ inflight[q].pc = "done" /\ inflight[q].op = "Delete"
    /\ inflight[q].err = Nil /\ inflight[q].id = inflight[p].id
    /\ store[inflight[p].id] = NoRow

\* C22: a subscription that has an end date has one in every later state in
\* which it is in the table: no step clears the end date of a row.
C22_EndNeverCleared ==
  [][\A id \in Ids :
       (store[id] # NoRow /\ store[id].end_date.Valid /\ store'[id] # NoRow)
       => store'[id].end_date.Valid]_vars

\* C22 witness: an Update without end_date read the row while it had no end
\* date and wrote after another Update had set one; the row has the end date.
C22_Witness ==
  \E p, q \in Procs :
    /\ inflight[p].pc = "done" /\ inflight[p].op = "Update"
    /\ inflight[p].err = Nil /\ inflight[p].req.end_date = None
    /\ inflight[p].params.end_date = NullDate
    /\ inflight[q].pc = "done" /\ inflight[q].op = "Update"
    /\ inflight[q].err = Nil /\ inflight[q].req.end_date # None
    /\ inflight[q].id = inflight[p].id
    /\ store[inflight[p].id] # NoRow
    /\ store[inflight[p].id].end_date.Valid
    /\ inflight[p].out.end_date # None

\* C23: every List result has at most as many rows as its total, whatever
\* Create and Delete requests take effect between its two store queries.
C23_ListRowsAtMostTotal ==
  \A p \in Procs :
    (inflight[p].pc = "done" /\ inflight[p].op = "List"
       /\ inflight[p].err = Nil)
    => Len(inflight[p].out.data) <= inflight[p].out.total

====
